---- MODULE Spec2Model ----
(***************************************************************************)
(* Character controller of pig-souls: the MovementAction event stream, the *)
(* player state update (update_player_states), ground sensing, movement,   *)
(* and movement damping, run as the chained systems of one frame.          *)
(*                                                                         *)
(* The source computes in f32.  The model is fixed point:                  *)
(*   time      in units of 1/TimeUnit second     (dt = 1 is a 60 fps frame)*)
(*   stamina   in units of 1/StaminaUnit point                             *)
(*   velocity  in units of 1/VelUnit                                       *)
(*   direction in units of 1/DirUnit        (a stick at half deflection)   *)
(* so that every product rate * dt the source forms is an integer.         *)
(***************************************************************************)
EXTENDS Integers, Sequences, FiniteSets, TLC

VARIABLES
    player,      \* the Player component (src/src/player.rs)
    vel,         \* LinearVelocity of the controller entity, [x, y, z]
    grounded,    \* whether the Grounded marker component is present
    events,      \* Events<MovementAction> sent this frame, in send order
    dt,          \* Time::delta_secs() of this frame, 0 between frames
    pc,          \* 0: awaiting input; i: schedule[i] runs next; Len+1: frame end
    schedule,    \* the chained systems that run each frame
    camera_yaw,  \* yaw of the ThirdPersonCamera transform, in quarter turns
    camera,      \* the ThirdPersonCamera component: [pitch, distance]
    entities,    \* which of the two singletons exist: [player, camera]
    panicked,    \* a system has panicked: the app has stopped
    held,        \* the buttons ButtonInput had pressed in the last frame
    shape_hits,  \* the ShapeHits the ground caster reported for the frame
    props,       \* the breakable props, their events and what breaking them spawned
    rig,         \* the camera Transform on the line to the player, and the
                 \* position the collision pass chose: [to_player, blocked, target2]
    backlog,     \* per EventReader: last frame's events it has not read yet
    air,         \* history of the current airborne period (read by no system)
    frame        \* history: frames completed (SpecSprint), or ended in a roll
                 \* (SpecRollCount)

vars ==
    <<player, vel, grounded, events, dt, pc, schedule, camera_yaw, camera, entities,
      panicked, held, shape_hits, props, rig, backlog, air, frame>>

---------------------------------------------------------------------------
(* Fixed-point resolutions.                                                *)

TimeUnit == 60
StaminaUnit == 12
VelUnit == 6
DirUnit == 2

---------------------------------------------------------------------------
(* Bounds of the model.                                                    *)

\* At most this many MovementAction events are sent in one frame.
MaxEvents == 2
\* Frame times of the fine-grained specifications: 1..MaxFineDt sixtieths.
MaxFineDt == 2

---------------------------------------------------------------------------
(* Player::default (src/src/player.rs).  Speeds are per second.            *)

walk_speed == 200 * VelUnit
run_speed == 350 * VelUnit
roll_speed == 500 * VelUnit
roll_duration == (4 * TimeUnit) \div 10
roll_cooldown == (5 * TimeUnit) \div 10
coyote_time == (1 * TimeUnit) \div 10
can_move_while_blocking == TRUE
block_movement_penalty_pct == 50
max_stamina == 100 * StaminaUnit
stamina_regen_rate == 30 * StaminaUnit
stamina_use_rate == 15 * StaminaUnit
roll_stamina_cost == 20 * StaminaUnit
block_stamina_cost_per_sec == 5 * StaminaUnit
\* The literal 1.0 the code arms exhaustion_timer with.
exhaustion_time == 1 * TimeUnit

\* rate (per second) * delta (time units), as the source's `rate * delta`.
PerFrame(rate, delta) == (rate * delta) \div TimeUnit

Vec2Zero == <<0, 0>>
Vec3Zero == <<0, 0, 0>>

PlayerDefault ==
    [ is_moving            |-> FALSE,
      is_sprinting         |-> FALSE,
      current_speed        |-> walk_speed,
      is_rolling           |-> FALSE,
      roll_timer           |-> 0,
      roll_cooldown_timer  |-> 0,
      roll_direction       |-> Vec3Zero,
      can_roll             |-> TRUE,
      coyote_timer         |-> 0,
      is_blocking          |-> FALSE,
      stamina              |-> max_stamina,
      exhausted            |-> FALSE,
      exhaustion_timer     |-> 0 ]

---------------------------------------------------------------------------
(* MovementAction (src/src/character_controller.rs).                       *)

Move(direction, sprinting) == [kind |-> "Move", dir |-> direction, sprint |-> sprinting]
Jump == [kind |-> "Jump", dir |-> Vec2Zero, sprint |-> FALSE]
Roll(direction) == [kind |-> "Roll", dir |-> direction, sprint |-> FALSE]
StartBlock == [kind |-> "StartBlock", dir |-> Vec2Zero, sprint |-> FALSE]
EndBlock == [kind |-> "EndBlock", dir |-> Vec2Zero, sprint |-> FALSE]

\* Vector2::length_squared
LengthSquared(v) == v[1] * v[1] + v[2] * v[2]

\* Quat::from_rotation_y(yaw) * v, for yaw a whole number of quarter turns.
Cos4(q) == <<1, 0, -1, 0>>[(q % 4) + 1]
Sin4(q) == <<0, 1, 0, -1>>[(q % 4) + 1]
RotateY(q, v) ==
    << v[1] * Cos4(q) + v[3] * Sin4(q), v[2], v[3] * Cos4(q) - v[1] * Sin4(q) >>

\* All sequences over S of length at most n.
SeqsUpTo(S, n) == UNION { [1..k -> S] : k \in 0..n }

---------------------------------------------------------------------------
(* update_player_states (src/src/character_controller/states.rs), phase by *)
(* phase, each phase a function of the Player it is handed.                *)

\* The event scan: the flags the loop over movement_events.read() sets.
MoveSeen(evs) ==
    \E i \in DOMAIN evs : evs[i].kind = "Move" /\ LengthSquared(evs[i].dir) > 0

sprint_requested(evs) ==
    \E i \in DOMAIN evs :
        evs[i].kind = "Move" /\ LengthSquared(evs[i].dir) > 0 /\ evs[i].sprint

roll_requested(evs) == \E i \in DOMAIN evs : evs[i].kind = "Roll"

\* roll_direction after the scan: the direction of the last Roll event read.
requested_roll_direction(evs) ==
    LET rolls == { i \in DOMAIN evs : evs[i].kind = "Roll" }
    IN  IF rolls = {} THEN Vec2Zero
        ELSE evs[CHOOSE i \in rolls : \A j \in rolls : j <= i].dir

block_start_requested(evs) == \E i \in DOMAIN evs : evs[i].kind = "StartBlock"

block_end_requested(evs) == \E i \in DOMAIN evs : evs[i].kind = "EndBlock"

\* A faulty variant of the roll timer: the roll outlives a timer of exactly 0.
RollTimerUpdateLate(p, delta) ==
    IF p.is_rolling
    THEN LET t == p.roll_timer - delta
         IN  IF t < 0
             THEN [p EXCEPT !.is_rolling = FALSE,
                            !.roll_timer = 0,
                            !.roll_cooldown_timer = roll_cooldown,
                            !.can_roll = FALSE]
             ELSE [p EXCEPT !.roll_timer = t]
    ELSE IF ~p.can_roll
    THEN LET c == p.roll_cooldown_timer - delta
         IN  IF c <= 0
             THEN [p EXCEPT !.can_roll = TRUE, !.roll_cooldown_timer = 0]
             ELSE [p EXCEPT !.roll_cooldown_timer = c]
    ELSE p

\* Faulty variant of the roll timer: neither timer is reset to 0.0 when it
\* runs out.
RollTimerUpdateUnclamped(p, delta) ==
    IF p.is_rolling
    THEN LET t == p.roll_timer - delta
         IN  IF t <= 0
             THEN [p EXCEPT !.is_rolling = FALSE,
                            !.roll_timer = t,
                            !.roll_cooldown_timer = roll_cooldown,
                            !.can_roll = FALSE]
             ELSE [p EXCEPT !.roll_timer = t]
    ELSE IF ~p.can_roll
    THEN LET c == p.roll_cooldown_timer - delta
         IN  IF c <= 0
             THEN [p EXCEPT !.can_roll = TRUE, !.roll_cooldown_timer = c]
             ELSE [p EXCEPT !.roll_cooldown_timer = c]
    ELSE p

\* "Handle roll state and timer".
RollTimerUpdate(p, delta) ==
    IF p.is_rolling
    THEN LET t == p.roll_timer - delta
         IN  IF t <= 0
             THEN [p EXCEPT !.is_rolling = FALSE,
                            !.roll_timer = 0,
                            !.roll_cooldown_timer = roll_cooldown,
                            !.can_roll = FALSE]
             ELSE [p EXCEPT !.roll_timer = t]
    ELSE IF ~p.can_roll
    THEN LET c == p.roll_cooldown_timer - delta
         IN  IF c <= 0
             THEN [p EXCEPT !.can_roll = TRUE, !.roll_cooldown_timer = 0]
             ELSE [p EXCEPT !.roll_cooldown_timer = c]
    ELSE p

\* Faulty variant of the roll guard: the `player.can_roll` test is dropped.
RollAcceptedIgnoringCooldown(p, evs) ==
    /\ roll_requested(evs)
    /\ ~p.is_rolling
    /\ ~p.exhausted
    /\ p.stamina >= roll_stamina_cost

\* Faulty variant of the roll guard: the stamina test is dropped.
RollAcceptedIgnoringStamina(p, evs) ==
    /\ roll_requested(evs)
    /\ p.can_roll
    /\ ~p.is_rolling
    /\ ~p.exhausted

\* The guard of "Process new roll request".
RollAccepted(p, evs) ==
    /\ roll_requested(evs)
    /\ p.can_roll
    /\ ~p.is_rolling
    /\ ~p.exhausted
    /\ p.stamina >= roll_stamina_cost

\* A faulty variant of the roll start: half the roll cost is charged.
BeginRollAtHalfCost(p, evs, yaw) ==
    IF RollAccepted(p, evs)
    THEN LET d == requested_roll_direction(evs)
             s == p.stamina - roll_stamina_cost \div 2
         IN  [p EXCEPT !.is_rolling = TRUE,
                       !.roll_timer = roll_duration,
                       !.roll_direction = RotateY(yaw, <<d[1], 0, -d[2]>>),
                       !.stamina = IF s < 0 THEN 0 ELSE s,
                       !.is_blocking = FALSE]
    ELSE p

\* "Process new roll request if player can roll and has stamina".
BeginRoll(p, evs, yaw) ==
    IF RollAccepted(p, evs)
    THEN LET d == requested_roll_direction(evs)
             s == p.stamina - roll_stamina_cost
         IN  [p EXCEPT !.is_rolling = TRUE,
                       !.roll_timer = roll_duration,
                       !.roll_direction = RotateY(yaw, <<d[1], 0, -d[2]>>),
                       !.stamina = IF s < 0 THEN 0 ELSE s,
                       !.is_blocking = FALSE]
    ELSE p

\* Faulty variant of the block requests: the two `is_rolling` tests are dropped.
BlockRequestsIgnoringRoll(p, evs) ==
    LET q == IF block_start_requested(evs) /\ ~p.exhausted
             THEN [p EXCEPT !.is_blocking = TRUE]
             ELSE p
    IN  IF block_end_requested(evs)
        THEN [q EXCEPT !.is_blocking = FALSE]
        ELSE q

\* A faulty variant of the block requests: the end request is applied first
\* and the `exhausted` test is dropped, so a start request always wins.
BlockRequestsStartWins(p, evs) ==
    LET q == IF block_end_requested(evs) \/ p.is_rolling
             THEN [p EXCEPT !.is_blocking = FALSE]
             ELSE p
    IN  IF block_start_requested(evs) /\ ~q.is_rolling
        THEN [q EXCEPT !.is_blocking = TRUE]
        ELSE q

\* "Handle blocking state changes".
BlockRequests(p, evs) ==
    LET q == IF block_start_requested(evs) /\ ~p.is_rolling /\ ~p.exhausted
             THEN [p EXCEPT !.is_blocking = TRUE]
             ELSE p
    IN  IF block_end_requested(evs) \/ q.is_rolling
        THEN [q EXCEPT !.is_blocking = FALSE]
        ELSE q

\* Faulty variant of the block cost: depletion does not set `exhausted`.
BlockUpkeepWithoutExhaustion(p, delta) ==
    IF p.is_blocking
    THEN LET s == p.stamina - PerFrame(block_stamina_cost_per_sec, delta)
         IN  IF s <= 0
             THEN [p EXCEPT !.stamina = 0, !.is_blocking = FALSE]
             ELSE [p EXCEPT !.stamina = s]
    ELSE p

\* Faulty variant of the block cost: depletion leaves the block up.
BlockUpkeepKeepsBlocking(p, delta) ==
    IF p.is_blocking
    THEN LET s == p.stamina - PerFrame(block_stamina_cost_per_sec, delta)
         IN  IF s <= 0
             THEN [p EXCEPT !.stamina = 0,
                            !.exhausted = TRUE,
                            !.exhaustion_timer = exhaustion_time]
             ELSE [p EXCEPT !.stamina = s]
    ELSE p

\* "Apply stamina cost for blocking".
BlockUpkeep(p, delta) ==
    IF p.is_blocking
    THEN LET s == p.stamina - PerFrame(block_stamina_cost_per_sec, delta)
         IN  IF s <= 0
             THEN [p EXCEPT !.stamina = 0,
                            !.exhausted = TRUE,
                            !.exhaustion_timer = exhaustion_time,
                            !.is_blocking = FALSE]
             ELSE [p EXCEPT !.stamina = s]
    ELSE p

\* The guard of the sprint branch.
SprintHonored(p, evs) ==
    /\ ~p.is_rolling
    /\ ~p.is_blocking
    /\ sprint_requested(evs)
    /\ ~p.exhausted
    /\ p.stamina > 0

\* Faulty variant of the sprint drain: it drains at the regeneration rate.
SprintDrainAtRegenRate(p, delta) ==
    p.stamina - PerFrame(stamina_regen_rate, delta)

\* The stamina the sprint branch leaves: `stamina -= stamina_use_rate * delta`.
SprintDrain(p, delta) == p.stamina - PerFrame(stamina_use_rate, delta)

\* Faulty variant of the regeneration: the `.min(max_stamina)` is dropped.
RegeneratedUncapped(p, delta) ==
    p.stamina + PerFrame(stamina_regen_rate, delta)

\* Faulty variant of the regeneration: it regenerates at the sprint's rate.
RegeneratedAtUseRate(p, delta) ==
    LET s == p.stamina + PerFrame(stamina_use_rate, delta)
    IN  IF s < max_stamina THEN s ELSE max_stamina

\* The stamina the regeneration branch leaves, capped by `.min(max_stamina)`.
Regenerated(p, delta) ==
    LET s == p.stamina + PerFrame(stamina_regen_rate, delta)
    IN  IF s < max_stamina THEN s ELSE max_stamina

\* Faulty variant of SprintAndRegen: the exhaustion countdown is gated like the
\* regeneration, so it stalls in a frame that requests a sprint.
SprintAndRegenStalling(p, evs, delta) ==
    IF SprintHonored(p, evs)
    THEN LET s == SprintDrain(p, delta)
             q == [p EXCEPT !.is_sprinting = TRUE, !.current_speed = run_speed]
         IN  IF s <= 0
             THEN [q EXCEPT !.stamina = 0,
                            !.exhausted = TRUE,
                            !.exhaustion_timer = exhaustion_time]
             ELSE [q EXCEPT !.stamina = s]
    ELSE IF ~p.is_rolling
    THEN LET q == [p EXCEPT
                     !.is_sprinting = FALSE,
                     !.current_speed =
                         IF p.is_blocking /\ can_move_while_blocking
                         THEN (walk_speed * block_movement_penalty_pct) \div 100
                         ELSE IF ~p.is_blocking THEN walk_speed
                         ELSE p.current_speed]
         IN  IF q.exhausted /\ ~sprint_requested(evs)
             THEN LET t == q.exhaustion_timer - delta
                  IN  [q EXCEPT !.exhaustion_timer = t,
                                !.exhausted = ~(t <= 0)]
             ELSE IF /\ ~q.exhausted
                     /\ ~sprint_requested(evs)
                     /\ ~q.is_rolling
                     /\ ~q.is_blocking
                     /\ q.stamina < max_stamina
             THEN [q EXCEPT !.stamina = Regenerated(q, delta)]
             ELSE q
    ELSE p

\* "Handle sprinting state and stamina", with the speed fallback, the
\* exhaustion countdown and the regeneration of its else branch.
SprintAndRegen(p, evs, delta) ==
    IF SprintHonored(p, evs)
    THEN LET s == SprintDrain(p, delta)
             q == [p EXCEPT !.is_sprinting = TRUE, !.current_speed = run_speed]
         IN  IF s <= 0
             THEN [q EXCEPT !.stamina = 0,
                            !.exhausted = TRUE,
                            !.exhaustion_timer = exhaustion_time]
             ELSE [q EXCEPT !.stamina = s]
    ELSE IF ~p.is_rolling
    THEN LET q == [p EXCEPT
                     !.is_sprinting = FALSE,
                     !.current_speed =
                         IF p.is_blocking /\ can_move_while_blocking
                         THEN (walk_speed * block_movement_penalty_pct) \div 100
                         ELSE IF ~p.is_blocking THEN walk_speed
                         ELSE p.current_speed]
         IN  IF q.exhausted
             THEN LET t == q.exhaustion_timer - delta
                  IN  [q EXCEPT !.exhaustion_timer = t,
                                !.exhausted = ~(t <= 0)]
             ELSE IF /\ ~sprint_requested(evs)
                     /\ ~q.is_rolling
                     /\ ~q.is_blocking
                     /\ q.stamina < max_stamina
             THEN [q EXCEPT !.stamina = Regenerated(q, delta)]
             ELSE q
    ELSE p

\* "Handle coyote time for jump improvements".
CoyoteCountdown(p, delta) ==
    IF p.coyote_timer > 0
    THEN [p EXCEPT !.coyote_timer = p.coyote_timer - delta]
    ELSE p

\* The whole system, for a frame in which the Player and the camera exist.
update_player_states(p, evs, delta, yaw) ==
    LET p0 == [p EXCEPT !.is_moving = MoveSeen(evs)]
        p1 == RollTimerUpdate(p0, delta)
        p2 == BeginRoll(p1, evs, yaw)
        p3 == BlockRequests(p2, evs)
        p4 == BlockUpkeep(p3, delta)
        p5 == SprintAndRegen(p4, evs, delta)
    IN  CoyoteCountdown(p5, delta)

---------------------------------------------------------------------------
(* update_grounded (src/src/character_controller/physics.rs).  A hit of    *)
(* the ShapeCaster is [angle, uphill]: the angle of its normal with the    *)
(* vertical in degrees, and whether uphill_factor < 0 for it.              *)

\* Level ground under the character.
FlatHit == [angle |-> 0, uphill |-> FALSE]

\* MaxSlopeAngle of CharacterController::new, (30.0).to_radians(), in degrees.
max_slope_angle == 30

\* effective_angle of a hit, times 10 * max_slope_angle (kept integral).
EffectiveAngle10M(hit) ==
    IF hit.uphill
    THEN hit.angle * (9 * max_slope_angle
                      - (IF hit.angle < max_slope_angle THEN hit.angle
                         ELSE max_slope_angle))
    ELSE hit.angle * 10 * max_slope_angle

\* The loop over hits.iter(): acc is [best, is_grounded, normal] so far,
\* normal being the hit whose normal is best_normal.
RECURSIVE ScanHits(_, _, _)
ScanHits(hits, i, acc) ==
    IF i > Len(hits) THEN acc
    ELSE LET hit == hits[i]
             considered == 10 * hit.angle <= 12 * max_slope_angle
             better == considered /\ EffectiveAngle10M(hit) < acc.best
         IN  ScanHits(hits, i + 1,
                 IF better
                 THEN [best |-> EffectiveAngle10M(hit),
                       is_grounded |-> acc.is_grounded \/ hit.angle <= max_slope_angle,
                       normal |-> hit]
                 ELSE acc)

\* The locals of update_grounded before its loop: best_angle starts at PI,
\* best_normal at Vector::Y.
ScanStart ==
    [best |-> 180 * 10 * max_slope_angle, is_grounded |-> FALSE, normal |-> FlatHit]

\* is_grounded as update_grounded leaves it.
is_grounded_after(hits) == ScanHits(hits, 1, ScanStart).is_grounded

\* best_normal as the loop leaves it: the target the GroundNormal is blended
\* towards when there are hits.
best_normal(hits) == ScanHits(hits, 1, ScanStart).normal

---------------------------------------------------------------------------
(* movement (src/src/character_controller/physics.rs), on level ground:    *)
(* GroundNormal is Vector::Y, so the three velocity branches of a Move     *)
(* agree and a grounded jump adds no horizontal impulse.                   *)

\* JumpImpulse(7.0) of CharacterController::new.
jump_impulse == 7 * VelUnit

\* `player.roll_direction * player.roll_speed * delta_time`, x and z.
RollVelocity(p, delta) ==
    [x |-> PerFrame((p.roll_direction[1] * roll_speed) \div DirUnit, delta),
     z |-> PerFrame((p.roll_direction[3] * roll_speed) \div DirUnit, delta)]

\* One event of the "Normal movement processing" loop; st is [player, vel, jumped, read].
MovementEvent(st, ev, delta, yaw, is_grounded) ==
    IF ev.kind = "Move" /\ LengthSquared(ev.dir) > 0
    THEN LET w == RotateY(yaw, <<ev.dir[1], 0, -ev.dir[2]>>)
         IN  [st EXCEPT !.vel.x = PerFrame((w[1] * st.player.current_speed) \div DirUnit,
                                          delta),
                        !.vel.z = PerFrame((w[3] * st.player.current_speed) \div DirUnit,
                                          delta)]
    ELSE IF ev.kind = "Jump" /\ (is_grounded \/ st.player.coyote_timer > 0)
    THEN [st EXCEPT !.vel.y = jump_impulse,
                    !.player.coyote_timer = 0,
                    !.jumped = st.jumped + 1]
    ELSE st

RECURSIVE MovementEvents(_, _, _, _, _, _)
MovementEvents(st, evs, i, delta, yaw, is_grounded) ==
    IF i > Len(evs) THEN st
    ELSE MovementEvents(MovementEvent(st, evs[i], delta, yaw, is_grounded),
                        evs, i + 1, delta, yaw, is_grounded)

\* "Update coyote timer based on grounded state".
CoyoteUpdate(p, delta, is_grounded) ==
    IF ~is_grounded /\ p.coyote_timer <= 0
    THEN [p EXCEPT !.coyote_timer = coyote_time]
    ELSE IF ~is_grounded
    THEN LET t == p.coyote_timer - delta
         IN  [p EXCEPT !.coyote_timer = IF t > 0 THEN t ELSE 0]
    ELSE p

\* The whole system, for a frame in which the camera exists: [player, vel,
\* jumped, read], jumped counting the Jump events that were granted and read
\* the events taken off the reader (none on the two early returns).
movement(p, v, evs, delta, yaw, is_grounded) ==
    IF p.is_rolling
    THEN [player |-> p,
          vel |-> [v EXCEPT !.x = RollVelocity(p, delta).x,
                            !.z = RollVelocity(p, delta).z],
          jumped |-> 0,
          read |-> 0]
    ELSE IF p.is_blocking /\ ~can_move_while_blocking
    THEN [player |-> p, vel |-> [v EXCEPT !.x = 0, !.z = 0],
          jumped |-> 0, read |-> 0]
    ELSE LET st == MovementEvents([player |-> p, vel |-> v, jumped |-> 0,
                                   read |-> Len(evs)],
                                  evs, 1, delta, yaw, is_grounded)
         IN  [st EXCEPT !.player = CoyoteUpdate(st.player, delta, is_grounded)]

---------------------------------------------------------------------------
(* apply_movement_damping (src/src/character_controller/physics.rs).       *)

\* MovementDampingFactor(0.9) of CharacterController::new, as a fraction.
damping_num == 9
damping_den == 10

\* `v *= damping_factor.0`, rounded toward zero to the velocity resolution.
Damped(c) ==
    IF c >= 0 THEN (c * damping_num) \div damping_den
    ELSE -(((-c) * damping_num) \div damping_den)

\* The system's event scan: `moving`.
moving(evs) == MoveSeen(evs)

\* The events the scan takes off its reader: it breaks at the first Move of
\* non-zero direction.
RECURSIVE FirstMove(_, _)
FirstMove(evs, i) ==
    IF i > Len(evs) THEN Len(evs)
    ELSE IF evs[i].kind = "Move" /\ LengthSquared(evs[i].dir) > 0 THEN i
    ELSE FirstMove(evs, i + 1)

DampingReads(evs) == FirstMove(evs, 1)

apply_movement_damping(v, evs) ==
    IF ~moving(evs)
    THEN [v EXCEPT !.x = Damped(v.x), !.z = Damped(v.z)]
    ELSE v

---------------------------------------------------------------------------
(* third_person_camera (src/src/camera.rs): the orbit parameters of the    *)
(* ThirdPersonCamera component.  Angles are in 1/AngleUnit radian, the     *)
(* orbit distance in 1/DistUnit; a mouse motion is [dx, dy] in pixels, a   *)
(* wheel event its y in notches, a gamepad [has_axes, x, y] with the right *)
(* stick in tenths.  The Transform the system then writes (smooth_nudge    *)
(* toward the orbit position, look_at the player) is not kept.             *)

AngleUnit == 1000
DistUnit == 2

\* `clamp(0.5, 1.4)`, `clamp(2.0, 15.0)`, `clamp(1.0, 5.0)`.
pitch_min == 500
pitch_max == 1400
zoom_min == 2 * DistUnit
zoom_max == 15 * DistUnit
gamepad_zoom_min == 1 * DistUnit
gamepad_zoom_max == 5 * DistUnit

\* rotation_speed 0.004, zoom_speed 0.5, gamepad_sensitivity 0.05.
rotation_speed == 4
zoom_speed == DistUnit \div 2
gamepad_sensitivity == 50

CameraDefault ==
    [pitch |-> 400,
     yaw |-> 0,
     distance |-> 5 * DistUnit,
     invert_x |-> FALSE,
     invert_y |-> FALSE]

\* f32::clamp.
Clamp(v, lo, hi) == IF v < lo THEN lo ELSE IF v > hi THEN hi ELSE v

\* One MouseMotion event.
MouseLook(c, ev) ==
    LET dx == IF c.invert_x THEN -ev.dx ELSE ev.dx
        dy == IF c.invert_y THEN -ev.dy ELSE ev.dy
    IN  [c EXCEPT !.yaw = c.yaw - dx * rotation_speed,
                  !.pitch = Clamp(c.pitch + dy * rotation_speed,
                                  pitch_min, pitch_max)]

RECURSIVE MouseLooks(_, _, _)
MouseLooks(c, motions, i) ==
    IF i > Len(motions) THEN c
    ELSE MouseLooks(MouseLook(c, motions[i]), motions, i + 1)

\* One MouseWheel event.
Zoom(c, y) ==
    [c EXCEPT !.distance = Clamp(c.distance - y * zoom_speed, zoom_min, zoom_max)]

RECURSIVE Zooms(_, _, _)
Zooms(c, wheels, i) ==
    IF i > Len(wheels) THEN c
    ELSE Zooms(Zoom(c, wheels[i]), wheels, i + 1)

Abs(n) == IF n < 0 THEN -n ELSE n

\* `d * gamepad_sensitivity * time.delta_secs() * 60.0`, d a stick axis.
GamepadTurn(d, delta) == (d * gamepad_sensitivity * delta * 60) \div (10 * TimeUnit)

\* One connected gamepad: the right stick beyond its 0.1 deadzone turns the
\* camera, and the distance is clamped for every gamepad.
GamepadLook(c, pad, delta) ==
    LET inverted_stick_y == -pad.y
        dx == IF c.invert_x THEN -pad.x ELSE pad.x
        dy == IF c.invert_y THEN -inverted_stick_y ELSE inverted_stick_y
        turned == IF pad.has_axes /\ (Abs(pad.x) > 1 \/ Abs(pad.y) > 1)
                  THEN [c EXCEPT !.yaw = c.yaw - GamepadTurn(dx, delta),
                                 !.pitch = Clamp(c.pitch + GamepadTurn(dy, delta),
                                                 pitch_min, pitch_max)]
                  ELSE c
    IN  [turned EXCEPT !.distance = Clamp(turned.distance,
                                          gamepad_zoom_min, gamepad_zoom_max)]

RECURSIVE GamepadLooks(_, _, _, _)
GamepadLooks(c, pads, i, delta) ==
    IF i > Len(pads) THEN c
    ELSE GamepadLooks(GamepadLook(c, pads[i], delta), pads, i + 1, delta)

\* The orbit parameters the system leaves, for a frame in which the Player
\* and the camera exist: the mouse is read only while the window is focused.
third_person_camera(c, focused, motions, wheels, pads, delta) ==
    LET looked == IF focused
                  THEN Zooms(MouseLooks(c, motions, 1), wheels, 1)
                  ELSE c
    IN  GamepadLooks(looked, pads, 1, delta)

---------------------------------------------------------------------------
(* camera_collision_detection (src/src/camera.rs): the position it chooses *)
(* for the camera.  Lengths are in 1/LenUnit.  The camera Transform is     *)
(* kept as `rig`: its distance to the player (to_player), the y component  *)
(* of the unit vector from it to the player in tenths (sy), whether the    *)
(* last pass found a wall on the ray to the player (blocked) or the chosen *)
(* position inside geometry (inside), and the squared distance from the    *)
(* player of the position the pass chose (target2).  The scene has no      *)
(* floor within 0.5 below and no ceiling within 0.3 above that position.   *)

LenUnit == 10
height_offset == (15 * LenUnit) \div 10
ray_threshold == (5 * LenUnit) \div 10
min_camera_distance == (15 * LenUnit) \div 10
NoHit == -1

\* spawn_camera gives the camera no Transform: it starts at the origin, and
\* the Player at (0, 1.5, 0), straight above it.
RigSpawned ==
    [to_player |-> (15 * LenUnit) \div 10, sy |-> 10,
     blocked |-> FALSE, inside |-> FALSE, target2 |-> 0]

Max(a, b) == IF a > b THEN a ELSE b

\* ideal_offset is a rotation of (0, height_offset, distance).
OrbitLength2(c) ==
    height_offset * height_offset
        + ((c.distance * LenUnit) \div DistUnit) * ((c.distance * LenUnit) \div DistUnit)

\* new_distance.max(1.5), for a ray hit at wall_distance.
WallTarget(distance_to_player, wall_distance) ==
    Max(distance_to_player - (wall_distance * 8) \div 10, min_camera_distance)

safe_distance(c) == (c.distance * LenUnit * 4) \div (DistUnit * 10)

\* | -safe_direction * safe_distance + (0, height_offset * 0.8, 0) | squared.
FallbackTarget2(c, sy) ==
    LET lift == (height_offset * 8) \div 10
    IN  safe_distance(c) * safe_distance(c) + lift * lift
            - (2 * safe_distance(c) * lift * sy) \div 10

camera_collision_detection(c, r, wall, intersects) ==
    LET hit == r.to_player > ray_threshold /\ wall # NoHit
        proposed2 == IF hit
                     THEN WallTarget(r.to_player, wall) * WallTarget(r.to_player, wall)
                     ELSE OrbitLength2(c)
    IN  [r EXCEPT !.blocked = hit,
                  !.inside = intersects,
                  !.target2 = IF intersects THEN FallbackTarget2(c, r.sy)
                              ELSE proposed2]

---------------------------------------------------------------------------
(* One frame: the input systems send this frame's events, the chained      *)
(* systems of `schedule` run in order, each reading all of them, and the   *)
(* frame ends.                                                             *)

Forward == <<0, DirUnit>>
Right == <<DirUnit, 0>>

Min(a, b) == IF a < b THEN a ELSE b

\* keyboard_input and gamepad_input (src/src/character_controller/input.rs).
\* ButtonInput is the set of buttons pressed now (`now`) and the set pressed
\* in the last frame (`was`); the movement keys are the pair
\* (right - left, up - down); the left stick is a direction.  A button that
\* went down and up again inside the frame is in ButtonInput's just_pressed
\* and just_released sets whatever its state at the end of the frame: `now`
\* holds Tap(b) for it.
KeyboardButtons == { "Space", "ControlLeft", "MouseRight" }
GamepadButtons == { "South", "East", "RightTrigger" }

\* A faulty variant: the button is down, whether or not it was before.
pressed(was, now, b) == b \in now

Tap(b) == b \o ".tap"

just_pressed(was, now, b) == (b \in now /\ b \notin was) \/ Tap(b) \in now
just_released(was, now, b) == (b \in was /\ b \notin now) \/ Tap(b) \in now

\* Vec2::clamp_length_max(1.0), for a direction no longer than 1 or along
\* an axis.
Sign(n) == IF n > 0 THEN 1 ELSE IF n < 0 THEN -1 ELSE 0
clamp_length_max(v) ==
    IF LengthSquared(v) <= DirUnit * DirUnit THEN v
    ELSE << Sign(v[1]) * DirUnit, Sign(v[2]) * DirUnit >>

\* length_squared() > 0.01
OutsideDeadzone(v) == LengthSquared(v) * 100 > DirUnit * DirUnit

Emit(cond, ev) == IF cond THEN <<ev>> ELSE <<>>

keyboard_input(p, was, now, keys, sprinting) ==
    LET direction == clamp_length_max(<<keys[1] * DirUnit, keys[2] * DirUnit>>)
        roll_direction == IF direction # Vec2Zero THEN direction ELSE Forward
    IN  Emit(direction # Vec2Zero /\ ~p.is_rolling, Move(direction, sprinting))
        \o Emit(just_pressed(was, now, "Space") /\ ~p.is_rolling, Jump)
        \o Emit(just_pressed(was, now, "ControlLeft")
                    /\ p.can_roll /\ ~p.is_rolling /\ ~p.exhausted,
                Roll(roll_direction))
        \o Emit(just_pressed(was, now, "MouseRight") /\ ~p.is_rolling, StartBlock)
        \o Emit(just_released(was, now, "MouseRight") /\ p.is_blocking, EndBlock)

\* One gamepad with a left stick; RightTrigger2, its sprint button, is up.
gamepad_input(p, was, now, stick) ==
    LET direction == clamp_length_max(stick)
        roll_direction == IF OutsideDeadzone(stick) THEN clamp_length_max(stick)
                          ELSE Forward
    IN  Emit(OutsideDeadzone(direction) /\ ~p.is_rolling, Move(direction, FALSE))
        \o Emit(just_pressed(was, now, "South") /\ ~p.is_rolling, Jump)
        \o Emit(just_pressed(was, now, "East")
                    /\ p.can_roll /\ ~p.is_rolling /\ ~p.exhausted,
                Roll(roll_direction))
        \o Emit(just_pressed(was, now, "RightTrigger") /\ ~p.is_rolling, StartBlock)
        \o Emit(just_released(was, now, "RightTrigger") /\ p.is_blocking, EndBlock)

\* keyboard_input / gamepad_input as a source of events: any events of
\* `alphabet`, at most MaxEvents of them, in a frame of any length in `dts`.
SendIntents(alphabet, dts) ==
    /\ pc = 0
    /\ \E evs \in SeqsUpTo(alphabet, MaxEvents), d \in dts :
          /\ events' = evs
          /\ dt' = d
    /\ pc' = 1
    /\ UNCHANGED <<player, vel, grounded, schedule, camera_yaw, camera, entities, backlog, air, frame>>
    /\ UNCHANGED <<panicked, rig, held, shape_hits, props>>

\* keyboard_input, then gamepad_input, reading the Player as the last frame
\* left it.  The devices are where `was` says and move to one of `inputs`:
\* [now, keys, sprinting, pad, stick], pad telling whether a gamepad is
\* connected.  Without a Player both systems return at once.
InputSystems(inputs, dts) ==
    /\ pc = 0
    /\ \E in \in inputs, d \in dts :
          /\ events' = IF entities.player
                       THEN keyboard_input(player, held, in.now, in.keys, in.sprinting)
                            \o (IF in.pad
                                THEN gamepad_input(player, held, in.now, in.stick)
                                ELSE <<>>)
                       ELSE <<>>
          /\ held' = in.now \cap (KeyboardButtons \cup GamepadButtons)
          /\ dt' = d
    /\ pc' = 1
    /\ UNCHANGED <<player, vel, grounded, schedule, camera_yaw, camera, entities, backlog, air, frame>>
    /\ UNCHANGED <<panicked, rig, shape_hits, props>>

Runs(system) == ~panicked /\ pc \in 1..Len(schedule) /\ schedule[pc] = system

\* What `EventReader::read()` yields to a system in this frame: the events of
\* the last frame it left unread, then this frame's.  Events<T> is double
\* buffered, so an event outlives the frame it was sent in by one frame.
Pending(system) ==
    (IF system = "movement" THEN backlog.movement
     ELSE IF system = "update_player_states" THEN backlog.states
     ELSE backlog.damping) \o events

\* The readers of MovementAction, and the camera's readers of MouseMotion
\* (look) and MouseWheel (zoom).
NoBacklog ==
    [states |-> <<>>, movement |-> <<>>, damping |-> <<>>,
     look |-> <<>>, zoom |-> <<>>]

\* The events of this frame (cur) still unread by a reader that took `read`
\* events off `pending`: the reader's cursor advances with each event taken.
LeftUnread(pending, read, cur) ==
    LET left == Min(Len(cur), Len(pending) - read)
    IN  SubSeq(cur, Len(cur) - left + 1, Len(cur))

\* The history of an airborne period: time since the Grounded marker went
\* away, jumps granted while it was away (counted up to AirJumpCap), whether
\* no jump was granted since it was last present, and whether the armed
\* coyote timer of a jump-free period has run out.
AirJumpCap == 2
AirTimeCap == coyote_time + 1
OnGround == [time |-> 0, jumps |-> 0, clean |-> TRUE, expired |-> FALSE]

RanOut(before, after) ==
    ~grounded /\ air.clean /\ before.coyote_timer > 0 /\ after.coyote_timer <= 0

\* update_grounded inserts or removes Grounded from the ShapeHits of the frame.
\* Its query is over the CharacterController entity, which is the Player's.
UpdateGrounded(hitlists) ==
    /\ Runs("update_grounded")
    /\ IF entities.player
       THEN \E hits \in hitlists :
              LET g == is_grounded_after(hits)
              IN  /\ shape_hits' = hits
                  /\ grounded' = g
                  /\ air' = IF g THEN OnGround
                            ELSE IF grounded THEN [air EXCEPT !.time = 0]
                            ELSE [air EXCEPT
                                    !.time = Min(air.time + dt, AirTimeCap)]
       ELSE UNCHANGED <<grounded, air, shape_hits>>
    /\ pc' = pc + 1
    /\ UNCHANGED <<player, vel, events, dt, schedule, camera_yaw, camera, entities, backlog, frame>>
    /\ UNCHANGED <<panicked, rig, held, props>>

\* Without a Player or without a ThirdPersonCamera the system returns before
\* it reads its events.
UpdatePlayerStates ==
    /\ Runs("update_player_states")
    /\ LET pending == Pending("update_player_states")
           p == update_player_states(player, pending, dt, camera_yaw)
       IN  IF entities.player /\ entities.camera
           THEN /\ player' = p
                /\ air' = [air EXCEPT !.expired = air.expired \/ RanOut(player, p)]
                /\ backlog' = [backlog EXCEPT !.states = <<>>]
           ELSE /\ UNCHANGED <<player, air>>
                /\ backlog' = [backlog EXCEPT
                                 !.states = LeftUnread(pending, 0, events)]
    /\ pc' = pc + 1
    /\ UNCHANGED <<vel, grounded, events, dt, schedule, camera_yaw, camera, entities, frame>>
    /\ UNCHANGED <<panicked, rig, held, shape_hits, props>>

\* Without a ThirdPersonCamera the system returns before it reads its events;
\* with one and without a Player, `.expect("No player found")` panics.
Movement ==
    /\ Runs("movement")
    /\ LET pending == Pending("movement")
           r == movement(player, vel, pending, dt, camera_yaw, grounded)
       IN  IF ~entities.camera
           THEN /\ backlog' = [backlog EXCEPT
                                 !.movement = LeftUnread(pending, 0, events)]
                /\ pc' = pc + 1
                /\ UNCHANGED <<player, vel, air, panicked>>
           ELSE IF ~entities.player
           THEN /\ panicked' = TRUE
                /\ UNCHANGED <<player, vel, air, backlog, pc>>
           ELSE /\ player' = r.player
                /\ vel' = r.vel
                /\ backlog' = [backlog EXCEPT
                                 !.movement = LeftUnread(pending, r.read, events)]
                /\ air' = [air EXCEPT
                             !.jumps = IF grounded THEN air.jumps
                                       ELSE Min(air.jumps + r.jumped, AirJumpCap),
                             !.clean = air.clean /\ r.jumped = 0,
                             !.expired = air.expired
                                         \/ (r.jumped = 0 /\ RanOut(player, r.player))]
                /\ pc' = pc + 1
                /\ UNCHANGED panicked
    /\ UNCHANGED <<grounded, events, dt, schedule, camera_yaw, camera, entities, frame>>
    /\ UNCHANGED <<rig, held, shape_hits, props>>

\* Its query is over the entity with a MovementDampingFactor, the Player's;
\* it asks for neither the Player nor the camera, and reads its events first.
ApplyMovementDamping ==
    /\ Runs("apply_movement_damping")
    /\ LET pending == Pending("apply_movement_damping")
       IN  /\ vel' = IF entities.player THEN apply_movement_damping(vel, pending)
                     ELSE vel
           /\ backlog' = [backlog EXCEPT
                            !.damping = LeftUnread(pending, DampingReads(pending),
                                                   events)]
    /\ pc' = pc + 1
    /\ UNCHANGED <<player, grounded, events, dt, schedule, camera_yaw, camera, entities, air, frame>>
    /\ UNCHANGED <<panicked, rig, held, shape_hits, props>>

\* The look inputs of a frame: mouse motions of a few pixels or a sweep,
\* wheel notches, and at most one gamepad, with or without a right stick.
MaxLookEvents == 1
MaxYaw == 1
MouseMotions ==
    [dx : {0}, dy : {-250, 25, 250}] \cup [dx : {-1, 1}, dy : {0}]
WheelNotches == {-1, 1}
Gamepads == [has_axes : {TRUE}, x : {0}, y : {-10, 10}]
                \cup [has_axes : {FALSE}, x : {0}, y : {0}]

\* third_person_camera: without a Player or without a camera it does nothing
\* and reads no event; with the window unfocused it reads no mouse event.
\* The yaw, which the source never wraps, is kept within MaxYaw pixels.
\* The look inputs of the frame are drawn from the three sets.
LookAround(mouse_motions, wheel_notches, gamepads) ==
    /\ Runs("third_person_camera")
    /\ \E focused \in BOOLEAN,
          motions \in SeqsUpTo(mouse_motions, MaxLookEvents),
          wheels \in SeqsUpTo(wheel_notches, MaxLookEvents),
          pads \in SeqsUpTo(gamepads, 1) :
          LET looks == backlog.look \o motions
              zooms == backlog.zoom \o wheels
              c == third_person_camera(camera, focused, looks, zooms, pads, dt)
              read == entities.player /\ entities.camera /\ focused
          IN  /\ camera' = IF entities.player /\ entities.camera THEN c ELSE camera
              /\ Abs(camera'.yaw) <= MaxYaw * rotation_speed
              /\ backlog' = [backlog EXCEPT
                               !.look = IF read THEN <<>> ELSE motions,
                               !.zoom = IF read THEN <<>> ELSE wheels]
    /\ pc' = pc + 1
    /\ UNCHANGED <<player, vel, grounded, events, dt, schedule, camera_yaw, entities,
                   panicked, rig, held, shape_hits, props, air, frame>>

ThirdPersonCamera == LookAround(MouseMotions, WheelNotches, Gamepads)

\* Where the other systems of a frame can have left the camera relative to
\* the player, and what the ray from it to the player can hit.
CameraDistances == { 3, 15, 25, 60, 100 }
CameraSlants == { -5, 0, 5, 10 }
WallDistances == { 0, 5, 10, 50 }

\* camera_collision_detection: without a Player or without a camera it
\* returns at once.  The smooth_nudge of the Transform toward the chosen
\* position is not kept: the next pass finds the camera anywhere.
CameraCollisionDetection ==
    /\ Runs("camera_collision_detection")
    /\ IF entities.player /\ entities.camera
       THEN \E d \in CameraDistances, sy \in CameraSlants, intersects \in BOOLEAN :
            \E wall \in {NoHit} \cup { w \in WallDistances : w <= d } :
               rig' = camera_collision_detection(
                          camera, [rig EXCEPT !.to_player = d, !.sy = sy],
                          wall, intersects)
       ELSE UNCHANGED rig
    /\ pc' = pc + 1
    /\ UNCHANGED <<player, vel, grounded, events, dt, schedule, camera_yaw, camera,
                   entities, panicked, held, shape_hits, props, backlog, air, frame>>

\* The input systems have not yet written the next frame's events.
EndFrame ==
    /\ pc = Len(schedule) + 1
    /\ pc' = 0
    /\ events' = <<>>
    /\ dt' = 0
    /\ UNCHANGED <<player, vel, grounded, schedule, camera_yaw, camera, entities, backlog, air, frame>>
    /\ UNCHANGED <<panicked, rig, held, shape_hits, props>>

---------------------------------------------------------------------------
(* Breakable props (src/src/breakable.rs).  BreakablePropsPlugin runs      *)
(* detect_breakable_collisions and, after it, break_props in FixedUpdate.  *)
(* Forces and speeds are in halves (ForceUnit).                            *)

ForceUnit == 2

\* The procedural props `setup` spawns: the sphere (break_threshold 1.5,
\* piece_count 8) and the crate (2.5, 12), both with broken_pieces empty, no
\* GltfBreakPattern, and ImpactSettings with play_sound and spawn_particles.
Breakables ==
    [ sphere |-> [break_threshold |-> 3, piece_count |-> 8],
      crate  |-> [break_threshold |-> 5, piece_count |-> 12] ]

PropNames == DOMAIN Breakables

\* spawn_break_particles spawns particle_count particles.
particle_count == 8

NoVelocity == -1

\* The things a prop can touch: a dynamic body at 2 m/s, one at 1 m/s, a
\* static body, and a collider with neither RigidBody nor LinearVelocity.
Colliders ==
    [ ball    |-> [rigid_body |-> "Dynamic", speed |-> 2 * ForceUnit],
      pebble  |-> [rigid_body |-> "Dynamic", speed |-> ForceUnit],
      wall    |-> [rigid_body |-> "Static", speed |-> 0],
      trigger |-> [rigid_body |-> "None", speed |-> NoVelocity] ]

\* Breakable requires RigidBody, whose default is Dynamic; a prop is at rest.
BodyOf(entity) ==
    IF entity \in PropNames THEN [rigid_body |-> "Dynamic", speed |-> 0]
    ELSE Colliders[entity]

\* The Collision events of one physics tick: one for each pair of touching
\* entities, at most MaxCollisions of them, among the entities that exist.
MaxCollisions == 2

Contacts(alive) ==
    LET existing == alive \cup DOMAIN Colliders
    IN  { c \in [entity1 : existing, entity2 : existing] : c.entity1 # c.entity2 }

SamePair(c, d) == {c.entity1, c.entity2} = {d.entity1, d.entity2}

CollisionLists(alive) ==
    { cs \in SeqsUpTo(Contacts(alive), MaxCollisions) :
        \A i, j \in DOMAIN cs : i # j => ~SamePair(cs[i], cs[j]) }

\* detect_breakable_collisions: the BreakPropEvents it sends for the
\* Collision events from the i-th on, `alive` being the entities with a
\* Breakable component.
RECURSIVE detect_breakable_collisions(_, _, _)
detect_breakable_collisions(collisions, i, alive) ==
    IF i > Len(collisions) THEN <<>>
    ELSE
      LET contacts == collisions[i]
          rest == detect_breakable_collisions(collisions, i + 1, alive)
      IN  IF contacts.entity1 \notin alive /\ contacts.entity2 \notin alive
          THEN rest
          ELSE
            LET breakable_entity ==
                    IF contacts.entity1 \in alive THEN contacts.entity1
                    ELSE contacts.entity2
                other_entity ==
                    IF contacts.entity1 \in alive THEN contacts.entity2
                    ELSE contacts.entity1
                other == BodyOf(other_entity)
                impact_force ==
                    IF other.speed # NoVelocity THEN 2 * other.speed
                    ELSE 3 * ForceUnit
            IN  IF other.rigid_body \notin {"Dynamic", "None"} THEN rest
                ELSE IF impact_force < Breakables[breakable_entity].break_threshold
                THEN rest
                ELSE << [entity |-> breakable_entity,
                         impact_force |-> impact_force] >> \o rest

\* What break_props queues in Commands for one event whose entity the
\* `breakables` query still holds.
BreakCommands(entity) ==
    << [cmd |-> "despawn_recursive", entity |-> entity, n |-> 1],
       [cmd |-> "spawn_procedural_pieces", entity |-> entity,
        n |-> Breakables[entity].piece_count],
       [cmd |-> "spawn_break_particles", entity |-> entity, n |-> particle_count],
       [cmd |-> "spawn_sound", entity |-> entity, n |-> 1] >>

\* break_props: the commands it queues for the events from the i-th on.
\* Commands are deferred, so the query answers for every event of the tick
\* as it did when the system started.
RECURSIVE break_props(_, _, _)
break_props(break_events, i, alive) ==
    IF i > Len(break_events) THEN <<>>
    ELSE (IF break_events[i].entity \in alive
          THEN BreakCommands(break_events[i].entity) ELSE <<>>)
         \o break_props(break_events, i + 1, alive)

\* The queue applied at the next sync point.  `w` is [breakables, spawned];
\* despawning an entity that is gone does nothing.
RECURSIVE ApplyCommands(_, _, _)
ApplyCommands(commands, i, w) ==
    IF i > Len(commands) THEN w
    ELSE
      LET c == commands[i]
          e == c.entity
      IN  ApplyCommands(commands, i + 1,
            CASE c.cmd = "despawn_recursive" ->
                   [w EXCEPT !.breakables = @ \ {e},
                             !.spawned[e].despawned =
                                 @ + (IF e \in w.breakables THEN 1 ELSE 0)]
              [] c.cmd = "spawn_procedural_pieces" ->
                   [w EXCEPT !.spawned[e].pieces = @ + c.n]
              [] c.cmd = "spawn_break_particles" ->
                   [w EXCEPT !.spawned[e].particles = @ + c.n]
              [] OTHER ->
                   [w EXCEPT !.spawned[e].sounds = @ + c.n])

PropsSpawned ==
    [ breakables |-> PropNames,
      spawned |-> [ e \in PropNames |->
                      [pieces |-> 0, particles |-> 0, sounds |-> 0, despawned |-> 0] ],
      collisions |-> <<>>,
      break_events |-> <<>>,
      step |-> "physics" ]

UnchangedOutsideProps ==
    UNCHANGED <<player, vel, grounded, events, dt, pc, schedule, camera_yaw, camera,
                entities, panicked, held, shape_hits, rig, backlog, air, frame>>

\* The physics step of a tick writes its Collision events.
PhysicsStep ==
    /\ props.step = "physics"
    /\ \E cs \in CollisionLists(props.breakables) :
          props' = [props EXCEPT !.collisions = cs,
                                 !.step = "detect_breakable_collisions"]
    /\ UnchangedOutsideProps

DetectBreakableCollisions ==
    /\ props.step = "detect_breakable_collisions"
    /\ props' = [props EXCEPT
                   !.break_events =
                       detect_breakable_collisions(props.collisions, 1, props.breakables),
                   !.step = "break_props"]
    /\ UnchangedOutsideProps

BreakProps ==
    /\ props.step = "break_props"
    /\ LET commands == break_props(props.break_events, 1, props.breakables)
           w == ApplyCommands(commands, 1,
                    [breakables |-> props.breakables, spawned |-> props.spawned])
       IN  props' = [props EXCEPT !.breakables = w.breakables,
                                  !.spawned = w.spawned,
                                  !.step = "end"]
    /\ UnchangedOutsideProps

\* Both systems have read the tick's events.
EndTick ==
    /\ props.step = "end"
    /\ props' = [props EXCEPT !.collisions = <<>>,
                              !.break_events = <<>>,
                              !.step = "physics"]
    /\ UnchangedOutsideProps

---------------------------------------------------------------------------
(* The frame's schedules and the initial state.                            *)

\* A faulty variant: the damping is chained ahead of movement.
ControllerScheduleDampingFirst ==
    <<"update_grounded", "update_player_states", "apply_movement_damping", "movement">>

\* CharacterControllerPlugin::build chains the systems in this order.
ControllerSchedule ==
    <<"update_grounded", "update_player_states", "movement", "apply_movement_damping">>

InitWith(sched) ==
    /\ player = PlayerDefault
    /\ vel = [x |-> 0, y |-> 0, z |-> 0]
    /\ grounded = TRUE
    /\ events = <<>>
    /\ dt = 0
    /\ pc = 0
    /\ schedule = sched
    /\ camera_yaw = 0
    /\ camera = CameraDefault
    /\ entities = [player |-> TRUE, camera |-> TRUE]
    /\ panicked = FALSE
    /\ rig = RigSpawned
    /\ held = {}
    /\ shape_hits = <<FlatHit>>
    /\ props = PropsSpawned
    /\ backlog = NoBacklog
    /\ air = OnGround
    /\ frame = 0

---------------------------------------------------------------------------
(* Spec: the player state machine under every intent, at frame times of    *)
(* 0.1 s and 0.2 s, which keep stamina on a grid.                          *)

StateIntents ==
    { Move(Forward, FALSE), Move(Forward, TRUE), Roll(Forward), StartBlock, EndBlock }

CoarseDts == { TimeUnit \div 10, TimeUnit \div 5 }

Init == InitWith(<<"update_player_states">>)

SendStateIntents == SendIntents(StateIntents, CoarseDts)

Next == SendStateIntents \/ UpdatePlayerStates \/ EndFrame

Spec == Init /\ [][Next]_vars

---------------------------------------------------------------------------
(* SpecRecovery: the player state machine in frames of 8/60 s that carry   *)
(* at most MaxRecoveryEvents intents, with the frames that Bevy's runner   *)
(* keeps scheduling: the App runs its Update schedule again and again, so  *)
(* a frame that can begin, a system whose turn it is and the end of a      *)
(* frame all happen.                                                       *)

\* The intents a frame of SpecRecovery carries at most.
MaxRecoveryEvents == 1

RecoveryIntents == { Move(Forward, TRUE), Roll(Forward), StartBlock, EndBlock }

RecoveryDt == (2 * TimeUnit) \div 15

SendOneIntent ==
    /\ pc = 0
    /\ \E evs \in SeqsUpTo(RecoveryIntents, MaxRecoveryEvents) : events' = evs
    /\ dt' = RecoveryDt
    /\ pc' = 1
    /\ UNCHANGED <<player, vel, grounded, schedule, camera_yaw, camera, entities, backlog, air, frame>>
    /\ UNCHANGED <<panicked, rig, held, shape_hits, props>>

NextRecovery == SendOneIntent \/ UpdatePlayerStates \/ EndFrame

SpecRecovery == Init /\ [][NextRecovery]_vars /\ WF_vars(NextRecovery)

---------------------------------------------------------------------------
(* SpecSprint: sprint held with a move direction in every frame, at 60     *)
(* frames per second, for MaxSprintFrames frames.                          *)

MaxSprintFrames == 480

HoldSprint ==
    /\ pc = 0
    /\ frame < MaxSprintFrames
    /\ events' = <<Move(Forward, TRUE)>>
    /\ dt' = 1
    /\ pc' = 1
    /\ UNCHANGED <<player, vel, grounded, schedule, camera_yaw, camera, entities, backlog, air, frame>>
    /\ UNCHANGED <<panicked, rig, held, shape_hits, props>>

EndCountedFrame ==
    /\ pc = Len(schedule) + 1
    /\ pc' = 0
    /\ events' = <<>>
    /\ dt' = 0
    /\ frame' = frame + 1
    /\ UNCHANGED <<player, vel, grounded, schedule, camera_yaw, camera, entities, backlog, air>>
    /\ UNCHANGED <<panicked, rig, held, shape_hits, props>>

NextSprint == HoldSprint \/ UpdatePlayerStates \/ EndCountedFrame

SpecSprint == Init /\ [][NextSprint]_vars

---------------------------------------------------------------------------
(* SpecCoyote: the whole controller chain on level ground with ledges, at  *)
(* frame times of 1..MaxFineDt sixtieths, under Move and Jump intents.     *)

\* ShapeHits of a frame: nothing below the character, or level ground.
LedgeHits == { <<>>, <<FlatHit>> }

FineDts == 1..MaxFineDt

InitCoyote == InitWith(ControllerSchedule)

SendJumpIntents == SendIntents({ Move(Forward, FALSE), Jump }, FineDts)

SenseLedges == UpdateGrounded(LedgeHits)

NextCoyote ==
    \/ SendJumpIntents
    \/ SenseLedges
    \/ UpdatePlayerStates
    \/ Movement
    \/ ApplyMovementDamping
    \/ EndFrame

SpecCoyote == InitCoyote /\ [][NextCoyote]_vars

---------------------------------------------------------------------------
(* SpecRoll: state update, movement and damping on level ground, under     *)
(* Move and Roll intents at frame times of 0.1 s and 0.2 s.                *)

RollSchedule == <<"update_player_states", "movement", "apply_movement_damping">>

InitRoll == InitWith(RollSchedule)

SendRollIntents == SendIntents({ Move(Forward, FALSE), Roll(Right) }, CoarseDts)

NextRoll ==
    \/ SendRollIntents
    \/ UpdatePlayerStates
    \/ Movement
    \/ ApplyMovementDamping
    \/ EndFrame

SpecRoll == InitRoll /\ [][NextRoll]_vars

---------------------------------------------------------------------------
(* SpecDamping: apply_movement_damping alone, from any velocity of a small *)
(* grid, under Move intents of zero and non-zero direction and Jump.       *)

DampVels == { -5 * VelUnit, 0, 5 * VelUnit, 10 * VelUnit }

\* The intents of SpecDamping: a Move that moves, a Move of zero direction
\* and a Jump.
DampingIntents == { Move(Forward, FALSE), Move(Vec2Zero, FALSE), Jump }

\* The three intents are distinct events; TLC builds the set once, here,
\* before its workers share it.
InitDamping ==
    /\ Cardinality(DampingIntents) = 3
    /\ player = PlayerDefault
    /\ vel \in [x : DampVels, y : {0, jump_impulse}, z : DampVels]
    /\ grounded = TRUE
    /\ events = <<>>
    /\ dt = 0
    /\ pc = 0
    /\ schedule = <<"apply_movement_damping">>
    /\ camera_yaw = 0
    /\ camera = CameraDefault
    /\ entities = [player |-> TRUE, camera |-> TRUE]
    /\ panicked = FALSE
    /\ rig = RigSpawned
    /\ held = {}
    /\ shape_hits = <<FlatHit>>
    /\ props = PropsSpawned
    /\ backlog = NoBacklog
    /\ air = OnGround
    /\ frame = 0

SendDampingIntents == SendIntents(DampingIntents, {1})

NextDamping == SendDampingIntents \/ ApplyMovementDamping \/ EndFrame

SpecDamping == InitDamping /\ [][NextDamping]_vars

---------------------------------------------------------------------------
(* SpecCamera: third_person_camera alone, from ThirdPersonCamera::default, *)
(* under every look input, at 60 frames per second.                        *)

InitCamera == InitWith(<<"third_person_camera">>)

NextFrame == SendIntents({}, {1})

NextCamera == NextFrame \/ ThirdPersonCamera \/ EndFrame

SpecCamera == InitCamera /\ [][NextCamera]_vars

---------------------------------------------------------------------------
(* SpecCollision: camera_collision_detection alone, at the orbit distances *)
(* 1 (the gamepad's minimum), 2 (the wheel's minimum) and 5 (the default). *)

OrbitDistances == { 1 * DistUnit, 2 * DistUnit, 5 * DistUnit }

InitCollision ==
    /\ player = PlayerDefault
    /\ vel = [x |-> 0, y |-> 0, z |-> 0]
    /\ grounded = TRUE
    /\ events = <<>>
    /\ dt = 0
    /\ pc = 0
    /\ schedule = <<"camera_collision_detection">>
    /\ camera_yaw = 0
    /\ \E distance \in OrbitDistances :
          camera = [CameraDefault EXCEPT !.distance = distance]
    /\ entities = [player |-> TRUE, camera |-> TRUE]
    /\ panicked = FALSE
    /\ rig = RigSpawned
    /\ held = {}
    /\ shape_hits = <<FlatHit>>
    /\ props = PropsSpawned
    /\ backlog = NoBacklog
    /\ air = OnGround
    /\ frame = 0

NextCollision == NextFrame \/ CameraCollisionDetection \/ EndFrame

SpecCollision == InitCollision /\ [][NextCollision]_vars

---------------------------------------------------------------------------
(* SpecSingleton: the controller chain on level ground, under Move intents *)
(* at frame times of 0.1 s, while the Player and the ThirdPersonCamera     *)
(* entities come and go between frames.  No system of the repository       *)
(* despawns either; the despawns stand for any other system with Commands. *)

Singletons == { "player", "camera" }

\* The entity is despawned with its components.
Despawn(e) ==
    /\ pc = 0
    /\ entities[e]
    /\ entities' = [entities EXCEPT ![e] = FALSE]
    /\ UNCHANGED <<player, vel, grounded, events, dt, pc, schedule, camera_yaw, camera,
                   panicked, held, shape_hits, props, rig, backlog, air, frame>>

\* player.rs `setup` and camera.rs `spawn_camera` build the entity anew.
Spawn(e) ==
    /\ pc = 0
    /\ ~entities[e]
    /\ entities' = [entities EXCEPT ![e] = TRUE]
    /\ IF e = "player"
       THEN /\ player' = PlayerDefault
            /\ vel' = [x |-> 0, y |-> 0, z |-> 0]
            /\ grounded' = FALSE
            /\ air' = [OnGround EXCEPT !.clean = FALSE]
            /\ UNCHANGED <<camera, rig>>
       ELSE /\ camera' = CameraDefault
            /\ rig' = RigSpawned
            /\ UNCHANGED <<player, vel, grounded, air>>
    /\ UNCHANGED <<events, dt, pc, schedule, camera_yaw, panicked, held, shape_hits, props, backlog, frame>>

Despawns == \E e \in Singletons : Despawn(e)
Spawns == \E e \in Singletons : Spawn(e)

\* keyboard_input and gamepad_input return at once without a Player.
SendSingletonIntents ==
    /\ SendIntents({ Move(Forward, FALSE) }, { TimeUnit \div 10 })
    /\ ~entities.player => events' = <<>>

SenseGround == UpdateGrounded({ <<FlatHit>> })

InitSingleton == InitWith(ControllerSchedule)

NextSingleton ==
    \/ Despawns
    \/ Spawns
    \/ SendSingletonIntents
    \/ SenseGround
    \/ UpdatePlayerStates
    \/ Movement
    \/ ApplyMovementDamping
    \/ EndFrame

SpecSingleton == InitSingleton /\ [][NextSingleton]_vars

---------------------------------------------------------------------------
(* SpecInput: the input systems and the player state update, at a frame    *)
(* time of 0.2 s.  In each frame the player uses the keyboard and mouse,   *)
(* or a connected gamepad: any of the device's buttons are down, the       *)
(* movement keys are neutral or forward, the stick is neutral, half        *)
(* forward or forward.                                                     *)

HalfForward == <<0, DirUnit \div 2>>

KeyboardFrames ==
    [now : SUBSET KeyboardButtons, keys : { <<0, 0>>, <<0, 1>> },
     sprinting : {FALSE}, pad : {FALSE}, stick : {Vec2Zero}]

GamepadFrames ==
    [now : SUBSET GamepadButtons, keys : { <<0, 0>> },
     sprinting : {FALSE}, pad : {TRUE}, stick : { Vec2Zero, HalfForward, Forward }]

ReadInputs == InputSystems(KeyboardFrames \cup GamepadFrames, { TimeUnit \div 5 })

NextInput == ReadInputs \/ UpdatePlayerStates \/ EndFrame

SpecInput == Init /\ [][NextInput]_vars

---------------------------------------------------------------------------
(* SpecRollIntent: the player state update under Roll intents of any       *)
(* direction, the zero direction included, whoever sent them; the two      *)
(* input systems themselves send forward in its place.                     *)

SendAnyRoll ==
    SendIntents({ Move(Forward, FALSE), Roll(Vec2Zero), Roll(Right) }, CoarseDts)

NextRollIntent == SendAnyRoll \/ UpdatePlayerStates \/ EndFrame

SpecRollIntent == Init /\ [][NextRollIntent]_vars

---------------------------------------------------------------------------
(* SpecSchedule: the Update schedule of a frame.  CharacterControllerPlugin *)
(* chains its systems; CameraPlugin adds third_person_camera to Update in   *)
(* a tuple of its own, with no before/after against the chain, so the       *)
(* executor may run it at any point of the chain, and not at the same one   *)
(* in every frame.  Level ground, Move intents, frame times of 0.1 s, and   *)
(* a mouse sweep down as the only look input.                               *)

RECURSIVE InsertAt(_, _, _)
InsertAt(seq, i, x) ==
    IF i = 1 THEN <<x>> \o seq
    ELSE <<Head(seq)>> \o InsertAt(Tail(seq), i - 1, x)

\* The orders the executor may pick for a frame.
FrameOrders ==
    { InsertAt(ControllerSchedule, i, "third_person_camera") :
        i \in 1..(Len(ControllerSchedule) + 1) }

ScheduleFrame ==
    /\ pc = 0
    /\ \E evs \in SeqsUpTo({ Move(Forward, FALSE) }, MaxEvents),
          order \in FrameOrders :
          /\ events' = evs
          /\ schedule' = order
    /\ dt' = TimeUnit \div 10
    /\ pc' = 1
    /\ UNCHANGED <<player, vel, grounded, camera_yaw, camera, entities, backlog, air, frame>>
    /\ UNCHANGED <<panicked, rig, held, shape_hits, props>>

SweepDown == LookAround({ [dx |-> 0, dy |-> 250] }, {}, {})

InitSchedule == \E order \in FrameOrders : InitWith(order)

NextSchedule ==
    \/ ScheduleFrame
    \/ SenseGround
    \/ UpdatePlayerStates
    \/ Movement
    \/ ApplyMovementDamping
    \/ SweepDown
    \/ EndFrame

SpecSchedule == InitSchedule /\ [][NextSchedule]_vars

---------------------------------------------------------------------------
(* SpecRollCount: the player state update under every kind of intent, at a *)
(* frame time that stays the same for the whole run; `frame` counts the    *)
(* frames that ended with the roll under way.                              *)

SteadyDts == { 7, TimeUnit \div 5 }

RollCountIntents == { Move(Forward, FALSE), Jump, Roll(Right), StartBlock, EndBlock }

InitRollCount ==
    /\ player = PlayerDefault
    /\ vel = [x |-> 0, y |-> 0, z |-> 0]
    /\ grounded = TRUE
    /\ events = <<>>
    /\ dt \in SteadyDts
    /\ pc = 0
    /\ schedule = <<"update_player_states">>
    /\ camera_yaw = 0
    /\ camera = CameraDefault
    /\ entities = [player |-> TRUE, camera |-> TRUE]
    /\ panicked = FALSE
    /\ rig = RigSpawned
    /\ held = {}
    /\ shape_hits = <<FlatHit>>
    /\ props = PropsSpawned
    /\ backlog = NoBacklog
    /\ air = OnGround
    /\ frame = 0

SendAtSteadyRate ==
    /\ pc = 0
    /\ events' \in SeqsUpTo(RollCountIntents, MaxEvents)
    /\ pc' = 1
    /\ UNCHANGED <<player, vel, grounded, dt, schedule, camera_yaw, camera, entities,
                   panicked, held, shape_hits, props, rig, backlog, air, frame>>

EndRollFrame ==
    /\ pc = Len(schedule) + 1
    /\ pc' = 0
    /\ events' = <<>>
    /\ frame' = IF player.is_rolling THEN frame + 1 ELSE 0
    /\ UNCHANGED <<player, vel, grounded, dt, schedule, camera_yaw, camera, entities,
                   panicked, held, shape_hits, props, rig, backlog, air>>

NextRollCount == SendAtSteadyRate \/ UpdatePlayerStates \/ EndRollFrame

SpecRollCount == InitRollCount /\ [][NextRollCount]_vars

---------------------------------------------------------------------------
(* SpecSlope: update_grounded alone, over the hits the ground caster can   *)
(* report on sloped ground: level, walkable (28 degrees), too steep but    *)
(* within the 20% visual allowance (32 degrees) and beyond it (40          *)
(* degrees), each faced uphill or not.  The caster is built                *)
(* with_max_hits(5); MaxHits of them are modelled.                         *)

MaxHits == 2

SlopeAngles == { 0, 28, 32, 40 }

\* A level hit has no slope direction: uphill_factor is NaN and NaN < 0.0 is
\* false.
SlopeHits ==
    { h \in [angle : SlopeAngles, uphill : BOOLEAN] : h.angle = 0 => ~h.uphill }

SlopeHitLists == SeqsUpTo(SlopeHits, MaxHits)

InitSlope == InitWith(<<"update_grounded">>)

SenseSlopes == UpdateGrounded(SlopeHitLists)

NextSlope == NextFrame \/ SenseSlopes \/ EndFrame

SpecSlope == InitSlope /\ [][NextSlope]_vars

---------------------------------------------------------------------------
(* SpecBlockInput: the input systems and the player state update under the *)
(* block and roll buttons of the mouse, the keyboard and a gamepad, each   *)
(* held, up, or tapped inside a frame.                                     *)

KeyboardBlockFrames ==
    [now : SUBSET { "MouseRight", Tap("MouseRight"), "ControlLeft" },
     keys : { <<0, 0>> }, sprinting : {FALSE}, pad : {FALSE}, stick : {Vec2Zero}]

GamepadBlockFrames ==
    [now : SUBSET { "RightTrigger", Tap("RightTrigger") },
     keys : { <<0, 0>> }, sprinting : {FALSE}, pad : {TRUE}, stick : {Vec2Zero}]

ReadBlockInputs ==
    InputSystems(KeyboardBlockFrames \cup GamepadBlockFrames, { TimeUnit \div 5 })

NextBlockInput == ReadBlockInputs \/ UpdatePlayerStates \/ EndFrame

SpecBlockInput == Init /\ [][NextBlockInput]_vars

---------------------------------------------------------------------------
(* Claims about the player state update.                                   *)

\* The step of one frame in which update_player_states runs.
StateStep == Runs("update_player_states") /\ pc' = pc + 1

\* The frame's events with the Roll events taken out.
WithoutRolls(evs) == SelectSeq(evs, LAMBDA e : e.kind # "Roll")

\* C1: after every frame of the player state update, for every sequence of
\* intents and every frame time, 0 <= stamina <= max_stamina.
C1_StaminaInRange == 0 <= player.stamina /\ player.stamina <= max_stamina

\* C1 witness: a frame has just drained stamina to the floor while sprint
\* was requested, and the clamp left it at 0.
C1_Witness ==
    /\ pc = Len(schedule) + 1
    /\ sprint_requested(events)
    /\ player.is_sprinting
    /\ player.stamina = 0

\* C3: in the frame a roll completes can_roll is false and the cooldown
\* timer starts at roll_cooldown; can_roll stays false while the cooldown
\* timer has not counted down to <= 0 and turns true only then; and a Roll
\* intent consumed while can_roll is false is ignored: the frame ends as it
\* would have without the Roll events (not rolling, stamina not charged).
C3_RollCooldown ==
    [][ StateStep =>
          /\ (player.is_rolling /\ ~player'.is_rolling)
                => /\ ~player'.can_roll
                   /\ player'.roll_cooldown_timer = roll_cooldown
          /\ (~player.can_roll /\ player.roll_cooldown_timer - dt > 0)
                => /\ ~player'.can_roll
                   /\ player'.roll_cooldown_timer = player.roll_cooldown_timer - dt
          /\ (~player.can_roll /\ player'.can_roll)
                => player.roll_cooldown_timer - dt <= 0
          /\ (~player'.can_roll /\ roll_requested(events))
                => /\ ~player'.is_rolling
                   /\ player' = update_player_states(player, WithoutRolls(events),
                                                     dt, camera_yaw)
      ]_vars

\* C3 witness: a Roll intent was consumed in the middle of the cooldown.
C3_Witness ==
    /\ pc = Len(schedule) + 1
    /\ roll_requested(events)
    /\ ~player.can_roll
    /\ ~player.is_rolling
    /\ 0 < player.roll_cooldown_timer
    /\ player.roll_cooldown_timer < roll_cooldown

\* C7: when a sprint or block cost brings stamina to 0 in a frame, exhausted
\* is true at the end of that frame; in every frame that starts exhausted no
\* intent sets is_sprinting or is_blocking; and exhausted stays true until
\* the frame in which exhaustion_timer counts down to <= 0.
C7_ExhaustionLockout ==
    [][ StateStep =>
          /\ (player.stamina > 0 /\ player'.stamina = 0 /\ ~player'.is_rolling)
                => /\ player'.exhausted
                   /\ player'.exhaustion_timer > 0
          /\ player.exhausted
                => /\ ~player'.is_sprinting
                   /\ ~player'.is_blocking
                   /\ player'.exhausted = (player.exhaustion_timer - dt > 0)
      ]_vars

\* C7 witness: sprint and block were both requested, and both refused, in a
\* frame that started exhausted.
C7_Witness ==
    /\ pc = Len(schedule) + 1
    /\ sprint_requested(events)
    /\ block_start_requested(events)
    /\ player.exhausted
    /\ player.exhaustion_timer < exhaustion_time - dt
    /\ ~player.is_sprinting
    /\ ~player.is_blocking

\* C9: a Roll intent consumed by a player who is not rolling and has less
\* than roll_stamina_cost stamina is rejected: is_rolling stays false,
\* roll_timer and roll_direction are unchanged, and the frame ends as it
\* would have without the Roll events (no roll cost deducted).
C9_RollRejected ==
    [][ (StateStep /\ roll_requested(events) /\ ~player.is_rolling
                   /\ player.stamina < roll_stamina_cost)
          => /\ ~player'.is_rolling
             /\ player'.roll_timer = player.roll_timer
             /\ player'.roll_direction = player.roll_direction
             /\ player' = update_player_states(player, WithoutRolls(events),
                                               dt, camera_yaw)
      ]_vars

\* C9 witness: the scenario's numbers, cost 20 and stamina 15, with can_roll
\* true and no exhaustion, so that only the stamina test rejects the roll.
C9_Witness ==
    /\ Runs("update_player_states")
    /\ roll_requested(events)
    /\ player.can_roll
    /\ ~player.is_rolling
    /\ ~player.exhausted
    /\ roll_stamina_cost = 20 * StaminaUnit
    /\ player.stamina = 15 * StaminaUnit

\* C8: with stamina 100 and sprint held at dt = 1/60, after 360 frames
\* stamina is 10 and exhausted is false; exhaustion has not happened before
\* frame 400, and after 400 frames stamina is 0 and exhausted is true.
C8_SprintDrain ==
    pc = 0 =>
       /\ frame = 360 => (player.stamina = 10 * StaminaUnit /\ ~player.exhausted)
       /\ frame < 400 => (player.stamina > 0 /\ ~player.exhausted)
       /\ frame = 400 => (player.stamina = 0 /\ player.exhausted)

\* C8 witness: the 400th frame of held sprint has ended in exhaustion.
C8_Witness ==
    pc = 0 /\ frame = 400 /\ player.exhausted /\ player.is_sprinting

---------------------------------------------------------------------------
(* Claims about the coyote timer, over the whole controller chain.         *)

\* The step of one frame in which movement runs.
MovementStep == Runs("movement") /\ pc' = pc + 1

JumpIssued == \E i \in DOMAIN events : events[i].kind = "Jump"

\* C4: a Jump intent issued in a frame after the one in which the Grounded
\* marker went away without a jump, and less than coyote_time after it,
\* succeeds: movement sets the vertical velocity to the jump impulse.
C4_CoyoteWindow ==
    [][ ( /\ MovementStep
          /\ JumpIssued
          /\ ~grounded
          /\ air.clean
          /\ 0 < air.time
          /\ air.time < coyote_time )
        => vel'.y = jump_impulse
      ]_vars

\* C5: between the frame the Grounded marker goes away and the frame it
\* comes back, at most one Jump intent is granted.
C5_OneAirJump == air.jumps <= 1

\* C6: once the coyote timer of a jump-free airborne period has counted
\* down to 0, it stays at 0 while the Grounded marker is away, and movement
\* leaves the vertical velocity alone whatever Jump intents arrive.
C6_CoyoteExpiry ==
    [][ (air.expired /\ ~grounded /\ grounded' = grounded)
        => /\ player'.coyote_timer <= 0
           /\ MovementStep => vel'.y = vel.y
      ]_vars

---------------------------------------------------------------------------
(* Claims about the velocity a frame leaves.                               *)

\* The step of one frame in which apply_movement_damping runs.
DampingStep == Runs("apply_movement_damping") /\ pc' = pc + 1

\* C2: at the end of every frame in which is_rolling is true, the horizontal
\* velocity is roll_direction * roll_speed (over the frame time, as movement
\* writes it), whether or not the frame had a Move intent.
C2_RollExclusivity ==
    (pc = Len(schedule) + 1 /\ player.is_rolling)
        => /\ vel.x = RollVelocity(player, dt).x
           /\ vel.z = RollVelocity(player, dt).z

\* C10: in a frame with no Move intent of non-zero direction the damping
\* step multiplies x and z by the damping factor and leaves y alone; in a
\* frame with one it leaves the velocity as it was.
C10_Damping ==
    [][ DampingStep =>
          IF MoveSeen(events)
          THEN vel' = vel
          ELSE vel' = [vel EXCEPT !.x = Damped(vel.x), !.z = Damped(vel.z)]
      ]_vars

---------------------------------------------------------------------------
(* Further claims about the player state update.                           *)

\* C11: is_rolling and is_blocking are never both true at the end of a frame
\* of the player state update (nor anywhere between frames); a roll that
\* begins in a frame clears is_blocking even when the frame has a StartBlock.
C11_RollOverridesBlock == ~(player.is_rolling /\ player.is_blocking)

\* C11 witness: a roll has just begun in a frame that also had a StartBlock,
\* and the frame ended rolling and not blocking.
C11_Witness ==
    /\ pc = Len(schedule) + 1
    /\ roll_requested(events)
    /\ block_start_requested(events)
    /\ player.is_rolling
    /\ player.roll_timer = roll_duration
    /\ ~player.is_blocking

---------------------------------------------------------------------------
(* Claims about the camera.                                                *)

\* C12: at the end of every frame, with or without look input, starting from
\* ThirdPersonCamera::default, the pitch is within [pitch_min, pitch_max].
C12_PitchClamp ==
    pc = Len(schedule) + 1
        => (pitch_min <= camera.pitch /\ camera.pitch <= pitch_max)

\* C13: when the ray from the camera to the player is blocked by a wall, the
\* position the collision pass chooses is strictly nearer the player than
\* the orbit position, and no nearer than the minimum safe distance: 1.5,
\* or safe_distance when the pass fell back from inside geometry.
C13_CollisionDistance ==
    rig.blocked =>
        /\ rig.target2 < OrbitLength2(camera)
        /\ rig.target2 >= (IF rig.inside
                           THEN safe_distance(camera) * safe_distance(camera)
                           ELSE min_camera_distance * min_camera_distance)

---------------------------------------------------------------------------
(* Claims about the frames of the controller chain.                        *)

SystemStep == ~panicked /\ pc \in 1..Len(schedule)

\* C14: in a frame without a Player or without a ThirdPersonCamera, no
\* system changes the Player state or the velocity, and none panics.
C14_MissingSingleton ==
    [][(SystemStep /\ (~entities.player \/ ~entities.camera))
          => (player' = player /\ vel' = vel /\ ~panicked')]_vars

\* C15: an intent changes the Player state and the velocity only in the frame
\* it was sent in: every system of the chain leaves them as it would with
\* this frame's intents alone, whatever earlier frames sent.
C15_IntentsConsumed ==
    [][SystemStep =>
          /\ Runs("update_player_states")
                => player' = update_player_states(player, events, dt, camera_yaw)
          /\ Runs("movement")
                => /\ player' = movement(player, vel, events, dt, camera_yaw,
                                         grounded).player
                   /\ vel' = movement(player, vel, events, dt, camera_yaw,
                                      grounded).vel
          /\ Runs("apply_movement_damping")
                => vel' = apply_movement_damping(vel, events)]_vars

---------------------------------------------------------------------------
(* Claims about rolls and exhaustion.                                      *)

\* C16: can_roll turns false in the frame a roll starts and turns true only
\* when the cooldown has run out, so can_roll is false whenever is_rolling
\* is true.
C16_NoRollWhileRolling == player.is_rolling => ~player.can_roll

\* C18: whenever a stamina cost (the roll cost, the block upkeep, the sprint
\* drain) brings stamina to 0 in a frame, that frame ends exhausted with the
\* exhaustion timer armed.
C18_ZeroStaminaExhausts ==
    [][(StateStep /\ player.stamina > 0 /\ player'.stamina = 0)
          => (player'.exhausted /\ player'.exhaustion_timer = exhaustion_time)]_vars

---------------------------------------------------------------------------
(* Claims about the input systems.                                         *)

\* The step of one frame in which keyboard_input and gamepad_input run.
InputStep == pc = 0 /\ pc' = 1

Emitted(evs, kind) == \E i \in DOMAIN evs : evs[i].kind = kind

\* C17: the input systems send Roll only in a frame in which a roll button
\* went down, and only if the Player is not rolling, not exhausted and can
\* roll; Jump only in a frame in which a jump button went down with the
\* Player not rolling; and in a frame in which no button went down (buttons
\* held, or released) they send no Roll, Jump or StartBlock.
C17_InputGating ==
    [][InputStep =>
          /\ Emitted(events', "Roll")
                => /\ \E b \in {"ControlLeft", "East"} : b \in held' \ held
                   /\ ~player.is_rolling /\ ~player.exhausted /\ player.can_roll
          /\ Emitted(events', "Jump")
                => /\ \E b \in {"Space", "South"} : b \in held' \ held
                   /\ ~player.is_rolling
          /\ held' \subseteq held
                => /\ ~Emitted(events', "Roll")
                   /\ ~Emitted(events', "Jump")
                   /\ ~Emitted(events', "StartBlock")]_vars

\* C17 witness: the inputs of a frame sent Roll, Jump and StartBlock, the
\* three buttons having gone down in it.
C17_Witness ==
    /\ pc = 1
    /\ {"ControlLeft", "Space", "MouseRight"} \subseteq held
    /\ Emitted(events, "Roll")
    /\ Emitted(events, "Jump")
    /\ Emitted(events, "StartBlock")

\* C20: whenever is_rolling is true, roll_direction has length 1, for every
\* Roll the input systems send: from the keyboard, and from a gamepad with
\* the stick at any deflection.
C20_UnitRollDirection ==
    player.is_rolling
        => player.roll_direction[1] * player.roll_direction[1]
             + player.roll_direction[2] * player.roll_direction[2]
             + player.roll_direction[3] * player.roll_direction[3]
           = DirUnit * DirUnit

---------------------------------------------------------------------------
(* Claims about the order of the systems in a frame.                       *)

\* The place of a system in the order of the frame.
RECURSIVE PlaceFrom(_, _, _)
PlaceFrom(order, system, i) ==
    IF i > Len(order) THEN 0
    ELSE IF order[i] = system THEN i
    ELSE PlaceFrom(order, system, i + 1)

Place(system) == PlaceFrom(schedule, system, 1)

\* C21: in every frame third_person_camera runs after movement and after
\* apply_movement_damping.
C21_CameraAfterPhysics ==
    pc >= 1 =>
        /\ Place("third_person_camera") > Place("movement")
        /\ Place("third_person_camera") > Place("apply_movement_damping")

\* C22: in every frame the input systems run before the player state update,
\* the player state update and update_grounded before movement, and movement
\* before apply_movement_damping: when a system runs, those due before it
\* have run in this frame and those due after it have not.
C22_ControllerOrder ==
    /\ Runs("update_player_states")
          => /\ pc >= 1
             /\ pc < Place("movement")
    /\ Runs("update_grounded") => pc < Place("movement")
    /\ Runs("movement")
          => /\ pc > Place("update_player_states")
             /\ pc > Place("update_grounded")
             /\ pc < Place("apply_movement_damping")
    /\ Runs("apply_movement_damping") => pc > Place("movement")

\* C22 witness: damping is about to run in a frame whose Move intent the
\* state update and movement have already acted on.
C22_Witness ==
    /\ Runs("apply_movement_damping")
    /\ MoveSeen(events)
    /\ player.is_moving
    /\ vel.z # 0

---------------------------------------------------------------------------
(* Claims about the phases of the player state update.                     *)

\* C23: a roll begins in a frame if and only if a Roll intent is read and,
\* after the frame's roll timer and cooldown update, can_roll is true,
\* is_rolling is false, exhausted is false and stamina >= roll_stamina_cost;
\* when it begins, is_rolling is true, roll_timer is roll_duration, stamina
\* is less by exactly roll_stamina_cost and is_blocking is false.
C23_RollStart ==
    [][StateStep =>
          LET q == RollTimerUpdate(player, dt)
              begins == ~player.is_rolling /\ player'.is_rolling
          IN  /\ begins <=> /\ roll_requested(events)
                            /\ q.can_roll
                            /\ ~q.is_rolling
                            /\ ~player.exhausted
                            /\ player.stamina >= roll_stamina_cost
              /\ begins => /\ player'.roll_timer = roll_duration
                           /\ player'.stamina = player.stamina - roll_stamina_cost
                           /\ ~player'.is_blocking]_vars

\* C23 witness: a roll began, the second at the least, in a frame with a
\* Roll intent.
C23_Witness ==
    /\ pc = Len(schedule) + 1
    /\ roll_requested(events)
    /\ player.is_rolling
    /\ player.roll_timer = roll_duration
    /\ player.stamina <= max_stamina - 2 * roll_stamina_cost

CeilDiv(a, b) == (a + b - 1) \div b

---------------------------------------------------------------------------
(* Claims about movement.                                                  *)

\* C25: when movement reads a Jump intent in a frame in which the player is
\* grounded or coyote_timer > 0, it leaves the vertical velocity at the jump
\* impulse and coyote_timer at 0; when the player is neither, the Jump
\* intent leaves the vertical velocity as it was.
C25_JumpRule ==
    [][(MovementStep /\ JumpIssued) =>
          IF grounded \/ player.coyote_timer > 0
          THEN vel'.y = jump_impulse /\ player'.coyote_timer = 0
          ELSE vel'.y = vel.y]_vars

---------------------------------------------------------------------------
(* Claims about sprinting, blocking and stamina.                           *)

\* C26: at the end of every state update is_sprinting is true only if the
\* player is not rolling, not blocking, was not exhausted before the drain,
\* and a Move intent with the sprint flag was read in the frame; otherwise
\* is_sprinting is false.
C26_SprintResolution ==
    [][StateStep =>
          (player'.is_sprinting
              => /\ ~player'.is_rolling
                 /\ ~player'.is_blocking
                 /\ ~player.exhausted
                 /\ sprint_requested(events))]_vars

\* C27: is_blocking turns true in a frame only if a StartBlock intent was
\* read in it and the player is not rolling and not exhausted in that frame;
\* and a frame in which both a StartBlock and an EndBlock intent were read
\* ends with is_blocking false.
C27_BlockRequests ==
    [][StateStep =>
          /\ (~player.is_blocking /\ player'.is_blocking)
                => /\ block_start_requested(events)
                   /\ ~player'.is_rolling
                   /\ ~player.exhausted
          /\ (block_start_requested(events) /\ block_end_requested(events))
                => ~player'.is_blocking]_vars

\* C27 witness: a frame with both requests, read by a player free to block,
\* ended with is_blocking false.
C27_Witness ==
    /\ pc = Len(schedule) + 1
    /\ block_start_requested(events)
    /\ block_end_requested(events)
    /\ ~player.is_blocking
    /\ ~player.is_rolling
    /\ ~player.exhausted
    /\ player.current_speed = walk_speed
    /\ player.stamina < max_stamina

\* C28: stamina increases in a frame only if in that frame the player is not
\* exhausted, not rolling, not blocking, no sprint was requested and stamina
\* < max_stamina; the increase is stamina_regen_rate * dt, capped at
\* max_stamina.
C28_RegenGating ==
    [][(StateStep /\ player'.stamina > player.stamina) =>
          /\ ~player.exhausted
          /\ ~player'.exhausted
          /\ ~player'.is_rolling
          /\ ~player'.is_blocking
          /\ ~sprint_requested(events)
          /\ player.stamina < max_stamina
          /\ player'.stamina
                = Min(player.stamina + PerFrame(stamina_regen_rate, dt), max_stamina)]_vars

\* C28 witness: the frame in which the first roll ended regenerated stamina.
C28_Witness ==
    /\ pc = Len(schedule) + 1
    /\ ~player.is_rolling
    /\ player.roll_cooldown_timer = roll_cooldown
    /\ player.stamina
          = max_stamina - roll_stamina_cost + PerFrame(stamina_regen_rate, dt)

\* No event of the frame asks for a sprint, a roll or a block.
Quiet ==
    /\ ~sprint_requested(events)
    /\ ~roll_requested(events)
    /\ ~block_start_requested(events)

\* C29: exhaustion is recoverable.  exhausted is set with exhaustion_timer
\* armed at 1.0 s; each state update of an exhausted player, whatever the
\* intents, counts the timer down by dt and clears exhausted exactly when the
\* timer has reached <= 0; an exhausted player is eventually not exhausted;
\* and once no sprint, roll or block is requested any more, stamina comes to
\* max_stamina and stays there.
C29_ExhaustionRecoverable ==
    /\ [][(StateStep /\ ~player.exhausted /\ player'.exhausted) =>
             player'.exhaustion_timer \in { exhaustion_time, exhaustion_time - dt }]_vars
    /\ [][(StateStep /\ player.exhausted) =>
             /\ player'.exhaustion_timer = player.exhaustion_timer - dt
             /\ player'.exhausted <=> (player'.exhaustion_timer > 0)]_vars
    /\ [](player.exhausted => <>(~player.exhausted))
    /\ (<>[]Quiet) => <>[](player.stamina = max_stamina)

\* C29 witness: a player whose exhaustion was counted down past zero has
\* regenerated to max_stamina.
C29_Witness ==
    /\ pc = Len(schedule) + 1
    /\ ~player.exhausted
    /\ player.exhaustion_timer < 0
    /\ player.stamina = max_stamina

---------------------------------------------------------------------------
(* Claims about ground sensing.                                            *)

\* Some hit of the list is within the max slope angle.
Walkable(hits) == \E i \in DOMAIN hits : hits[i].angle <= max_slope_angle

\* C30: after ground sensing the controller is grounded if and only if at
\* least one hit of the frame has a slope angle <= the max slope angle,
\* whatever the order of the hits and the facing of the character.
C30_GroundedClassification == grounded <=> Walkable(shape_hits)

\* The hits within the window update_grounded considers: up to 20% past the
\* max slope angle.
InWindow(hits) ==
    { i \in DOMAIN hits : 10 * hits[i].angle <= 12 * max_slope_angle }

\* C31: among the hits whose slope angle lies within the acceptable-angle
\* window, ground sensing selects the steepest as the ground normal.
C31_SteepestNormal ==
    InWindow(shape_hits) # {}
       => \A i \in InWindow(shape_hits) :
             shape_hits[i].angle <= best_normal(shape_hits).angle

---------------------------------------------------------------------------
(* Claims about the camera's systems.                                      *)

\* C32: camera_collision_detection is executed in every InGame frame, after
\* third_person_camera of the same frame.
C32_CollisionAfterOrbit ==
    pc >= 1 =>
        /\ Place("camera_collision_detection") >= 1
        /\ Place("camera_collision_detection") > Place("third_person_camera")

CameraStep == Runs("third_person_camera") /\ pc' = pc + 1

\* C33: whatever the zoom inputs, the orbit distance a frame leaves lies
\* within one [zoom_min, zoom_max] range, and it is the same with and without
\* a gamepad connected: the distance the frame's wheel events give, clamped
\* to that range, or the old distance when the mouse is not read.
C33_ZoomClamp ==
    [][CameraStep =>
          /\ zoom_min <= camera'.distance
          /\ camera'.distance <= zoom_max
          /\ \/ camera'.distance = camera.distance
             \/ \E wheels \in SeqsUpTo(WheelNotches, MaxLookEvents) :
                   camera'.distance
                      = Zooms(camera, backlog.zoom \o wheels, 1).distance]_vars

---------------------------------------------------------------------------
(* Invariants of the player state update.                                  *)

\* C34: at the end of every frame of the player state update an exhausted
\* player is neither rolling nor blocking.
C34_ExhaustedIdle ==
    player.exhausted => (~player.is_rolling /\ ~player.is_blocking)

\* C34 witness: a frame that asked for a roll and for a block ended with the
\* player exhausted.
C34_Witness ==
    /\ pc = Len(schedule) + 1
    /\ roll_requested(events)
    /\ block_start_requested(events)
    /\ player.exhausted

\* C35: at the end of every frame of the player state update is_rolling is
\* true exactly when roll_timer > 0; roll_cooldown_timer > 0 implies can_roll
\* is false; can_roll = false implies is_rolling = false; and both timers stay
\* within [0, roll_duration] and [0, roll_cooldown].
C35_RollConsistency ==
    /\ player.is_rolling <=> (player.roll_timer > 0)
    /\ (player.roll_cooldown_timer > 0) => ~player.can_roll
    /\ ~player.can_roll => ~player.is_rolling
    /\ 0 <= player.roll_timer
    /\ player.roll_timer <= roll_duration
    /\ 0 <= player.roll_cooldown_timer
    /\ player.roll_cooldown_timer <= roll_cooldown

\* C35 witness: a roll by a player who had already spent stamina is in its
\* last frame, with less than one frame time left on a timer the frame time
\* does not divide.
C35_Witness ==
    /\ pc = Len(schedule) + 1
    /\ player.is_rolling
    /\ 0 < player.roll_timer
    /\ player.roll_timer < dt
    /\ roll_duration % dt # 0
    /\ player.stamina < max_stamina - roll_stamina_cost

\* C36: in every reachable state, whatever the frame times, the coyote timer
\* is within [0, coyote_time].
C36_CoyoteRange ==
    /\ 0 <= player.coyote_timer
    /\ player.coyote_timer <= coyote_time

---------------------------------------------------------------------------
(* Claims about the block button.                                          *)

\* A block button is down at the end of the frame's input.
BlockHeld == "MouseRight" \in held \/ "RightTrigger" \in held

\* C37: is_blocking is true only while the block button is held: at the end
\* of every frame of the state update, whether the button was released in an
\* earlier frame or in the frame it was pressed in, a player whose block
\* button is up is not blocking.
C37_BlockTracksButton ==
    (pc = Len(schedule) + 1 /\ player.is_blocking) => BlockHeld

---------------------------------------------------------------------------
(* Spec: the breakable props under every two collisions of a tick.         *)

NextBreakable == PhysicsStep \/ DetectBreakableCollisions \/ BreakProps \/ EndTick

SpecBreakable == Init /\ [][NextBreakable]_vars

---------------------------------------------------------------------------
(* Claims about the breakable props.                                       *)

\* C38: a breakable prop breaks at most once: whatever collisions a tick
\* delivers, its pieces, its particles and its sound are spawned once and
\* it is despawned once.
C38_BreaksOnce ==
    \A e \in PropNames :
        /\ props.spawned[e].pieces <= Breakables[e].piece_count
        /\ props.spawned[e].particles <= particle_count
        /\ props.spawned[e].sounds <= 1
        /\ props.spawned[e].despawned <= 1

====
